---- MODULE Spec2Model ----
(***************************************************************************)
(* Challenge evaluation subsystem of the Cemil Slack bot.                  *)
(*                                                                         *)
(* ChallengeEvaluationService methods are invoked from Slack Bolt listener *)
(* threads and from APScheduler BackgroundScheduler worker threads         *)
(* (CronClient._wrap_async runs each coroutine with asyncio.run in the     *)
(* job's thread), so several calls run concurrently on one store.  The     *)
(* service holds no lock: every repository call and every gateway call is  *)
(* one atomic step, and calls interleave between those steps.              *)
(***************************************************************************)
EXTENDS Integers, Sequences, FiniteSets, TLC

(***************************************************************************)
(* Bounds of the model.                                                    *)
(***************************************************************************)
NProcs == 2          \* handler / scheduler threads, each serving one call
TeamSize == 2        \* team_size of the recruiting hub

(***************************************************************************)
(* Program constants.                                                      *)
(***************************************************************************)
JuryMax == 3         \* "max": 3, current_count >= 3
FinalizeDelay == 2880   \* delay_minutes=48 * 60

Procs == 1..NProcs
\* evaluation ids: every start_evaluation call draws one fresh uuid4
EvalIds == 1..NProcs
\* the evaluation id a caller passes: evaluation 1, or an id naming no evaluation
EvalArgs == {1, 2}
HubIds == {"h1"}

ADMIN_USER_ID == "admin"
Outsiders == {"u1", "u2", "u3", "u4"}
UserIds == {ADMIN_USER_ID, "creator", "member"} \cup Outsiders

None == ""
VoteInputs == {"True", "False"}
Approvals == {"approved", "rejected"}
\* callers of the administrator-only operations: the administrator and another user
AdminCallers == {ADMIN_USER_ID, "u1"}

PubUrl == "https://github.com/team/pub"
PrivUrl == "https://github.com/team/priv"

VARIABLES
    hubs,          \* challenge_hubs rows: HubIds -> record
    participants,  \* challenge_participants rows: set of [hub, user]
    evaluations,   \* challenge_evaluations rows: EvalIds -> record (status "absent": no row)
    evaluators,    \* challenge_evaluators rows: set of [id, evaluation_id, user_id, vote]
    nextId,        \* next fresh row id (uuid4) of an evaluator or participant row
    jobs,          \* pending one-off scheduler jobs: job id (evaluation id of
                   \* finalize_evaluation_<id>) -> run_date
    clock,         \* datetime.now(), advanced at every stored completion timestamp
    pc,            \* per thread: position inside the running call
    loc,           \* per thread: arguments and local variables of the running call
    ret,           \* per thread: the result envelope of its finished call
    fillLog,       \* per evaluation: the conv.invite_users calls made for the jury (batch invites)
    finalWrites,   \* per evaluation: number of "completed" updates written by finalize_evaluation
    resultPosts,   \* per evaluation: number of times finalize_evaluation sent the result message
    archives,      \* per evaluation: number of conv.archive_channel calls made
    activations    \* per hub: number of recruiting -> active transitions performed

vars == <<hubs, participants, evaluations, evaluators, nextId, jobs, clock,
          pc, loc, ret, fillLog, finalWrites, resultPosts, archives, activations>>

store == <<hubs, participants, evaluations, evaluators, nextId, jobs, clock>>
effects == <<fillLog, finalWrites, resultPosts, archives, activations>>

(***************************************************************************)
(* Records.                                                                *)
(***************************************************************************)
NoEvaluation ==
    [hub |-> None, status |-> "absent", channel |-> 0, url |-> None, public |-> 0,
     admin_approval |-> None, final_result |-> None, completed_at |-> 0,
     true_votes |-> 0, false_votes |-> 0]

NoLoc ==
    [op |-> "none", eid |-> 0, hub |-> None, user |-> None, arg |-> None,
     ev |-> NoEvaluation, jid |-> 0, n |-> 0, tv |-> 0, fv |-> 0, res |-> None, ids |-> {},
     reasons |-> {}]

NoRet ==
    [op |-> "none", eid |-> 0, user |-> None, arg |-> None,
     success |-> FALSE, action |-> None, is_full |-> FALSE, msg |-> "none"]

Envelope(l, success, action, is_full, msg) ==
    [op |-> l.op, eid |-> l.eid, user |-> l.user, arg |-> l.arg,
     success |-> success, action |-> action, is_full |-> is_full, msg |-> msg]

(***************************************************************************)
(* Record store (repositories).                                            *)
(***************************************************************************)
Exists(e) == evaluations[e].status # "absent"

GetByChallenge(h) == {e \in EvalIds : Exists(e) /\ evaluations[e].hub = h}

FreshEvalIds == {e \in EvalIds : ~Exists(e)}

ParticipantIds(h) == {r.user : r \in {x \in participants : x.hub = h}}

EvaluatorsOf(e) == {r \in evaluators : r.evaluation_id = e}

CountEvaluators(e) == Cardinality(EvaluatorsOf(e))

GetByEvaluationAndUserUnlessFull(e, u) ==
    IF CountEvaluators(e) >= 3 THEN {} ELSE {r \in EvaluatorsOf(e) : r.user_id = u}

GetByEvaluationAndUser(e, u) == {r \in EvaluatorsOf(e) : r.user_id = u}

GetVotes(e) ==
    [true |-> Cardinality({r \in EvaluatorsOf(e) : r.vote = "true"}),
     false |-> Cardinality({r \in EvaluatorsOf(e) : r.vote = "false"})]

(***************************************************************************)
(* Call framing.                                                           *)
(***************************************************************************)
\* a listener or scheduler thread takes up one call
Begin(p) == pc[p] = "idle"

Goto(p, label, l) ==
    /\ pc' = [pc EXCEPT ![p] = label]
    /\ loc' = [loc EXCEPT ![p] = l]
    /\ UNCHANGED ret

Return(p, l, success, action, is_full, msg) ==
    /\ pc' = [pc EXCEPT ![p] = "done"]
    /\ loc' = [loc EXCEPT ![p] = NoLoc]
    /\ ret' = [ret EXCEPT ![p] = Envelope(l, success, action, is_full, msg)]

(***************************************************************************)
(* CronClient                                                              *)
(***************************************************************************)
AddOnceJobKeepsFirst(js, id, run_date) ==
    IF id \in DOMAIN js THEN js
    ELSE [j \in DOMAIN js \cup {id} |-> IF j = id THEN run_date ELSE js[j]]

\* cron_client.py 79-86: scheduler.add_job(..., 'date', id=job_id, run_date=run_date,
\* replace_existing=True): a pending job of the same id is replaced
AddOnceJob(js, id, run_date) ==
    [j \in DOMAIN js \cup {id} |-> IF j = id THEN run_date ELSE js[j]]

\* delay_minutes a caller of add_once_job passes
Delays == {1, 2}

\* cron_client.py 66-96: add_once_job(func, delay_minutes, job_id): run_date is
\* now + delay; the job id is returned
ScheduleOnce(p, id, d) ==
    /\ Begin(p)
    /\ jobs' = AddOnceJob(jobs, id, clock + d)
    /\ Return(p, [NoLoc EXCEPT !.op = "add_once_job", !.eid = id, !.arg = d],
              TRUE, None, FALSE, "scheduled")
    /\ UNCHANGED <<hubs, participants, evaluations, evaluators, nextId, clock, effects>>

(***************************************************************************)
(* start_evaluation                                                        *)
(***************************************************************************)
\* lines 52-59: the call starts and the hub is fetched
StartEvaluation(p, h) ==
    /\ Begin(p)
    /\ Goto(p, "se_check", [NoLoc EXCEPT !.op = "start_evaluation", !.hub = h])
    /\ UNCHANGED <<store, effects>>

\* lines 61-67: existing = evaluation_repo.get_by_challenge(challenge_id)
SeCheck(p) ==
    /\ pc[p] = "se_check"
    /\ IF GetByChallenge(loc[p].hub) # {}
          THEN Return(p, loc[p], FALSE, None, FALSE, "duplicate")
          ELSE Goto(p, "se_create", loc[p])
    /\ UNCHANGED <<store, effects>>

\* lines 69-79: evaluation_repo.create with a fresh uuid and status "pending"
SeCreate(p) ==
    /\ pc[p] = "se_create"
    /\ \E e \in FreshEvalIds :
          /\ e = CHOOSE x \in FreshEvalIds : \A y \in FreshEvalIds : x <= y
          /\ evaluations' = [evaluations EXCEPT ![e] =
                                [NoEvaluation EXCEPT !.hub = loc[p].hub, !.status = "pending"]]
          /\ Goto(p, "se_channel", [loc[p] EXCEPT !.eid = e])
    /\ UNCHANGED <<hubs, participants, evaluators, nextId, jobs, clock, effects>>

\* lines 85-90 and 99-104: conv.create_channel succeeds or raises
SeChannel(p) ==
    /\ pc[p] = "se_channel"
    /\ \/ Goto(p, "se_update", [loc[p] EXCEPT !.n = loc[p].eid])
       \/ Return(p, loc[p], FALSE, None, FALSE, "channel_failed")
    /\ UNCHANGED <<store, effects>>

\* lines 93-96: evaluation_repo.update(channel id, status "evaluating")
SeUpdate(p) ==
    /\ pc[p] = "se_update"
    /\ evaluations' = [evaluations EXCEPT ![loc[p].eid] =
                          [@ EXCEPT !.channel = loc[p].n, !.status = "evaluating"]]
    /\ Goto(p, "se_schedule", loc[p])
    /\ UNCHANGED <<hubs, participants, evaluators, nextId, jobs, clock, effects>>

\* lines 106-136: invite the team (failure swallowed), cron.add_once_job
SeSchedule(p) ==
    /\ pc[p] = "se_schedule"
    /\ jobs' = AddOnceJob(jobs, loc[p].eid, clock + FinalizeDelay)
    /\ Goto(p, "se_post", loc[p])
    /\ UNCHANGED <<hubs, participants, evaluations, evaluators, nextId, clock, effects>>

\* lines 157-217: welcome message (failure swallowed), jury announcement
\* (chat.post_message outside any inner try: a failure reaches the outer except)
SePost(p) ==
    /\ pc[p] = "se_post"
    /\ \/ Return(p, loc[p], TRUE, None, FALSE, "started")
       \/ Return(p, loc[p], FALSE, None, FALSE, "error")
    /\ UNCHANGED <<store, effects>>

(***************************************************************************)
(* toggle_juror                                                            *)
(***************************************************************************)
EligibilityDropsAdmin(u, h) == u = hubs[h].creator \/ u \in ParticipantIds(h)

\* line 244: user_id == ADMIN_USER_ID or user_id == creator_id or user_id in participant_ids
Ineligible(u, h) == u = ADMIN_USER_ID \/ u = hubs[h].creator \/ u \in ParticipantIds(h)

\* lines 228-249: fetch the evaluation, its hub and the participants; eligibility check
ToggleJuror(p, e, u) ==
    /\ Begin(p)
    /\ LET l == [NoLoc EXCEPT !.op = "toggle_juror", !.eid = e, !.user = u,
                              !.ev = evaluations[e], !.hub = evaluations[e].hub]
       IN  IF ~Exists(e)
              THEN Return(p, l, FALSE, None, FALSE, "not_found")
              ELSE IF Ineligible(u, evaluations[e].hub)
                      THEN Return(p, l, FALSE, "none", FALSE, "ineligible")
                      ELSE Goto(p, "tg_existing", l)
    /\ UNCHANGED <<store, effects>>

\* lines 251-254: existing_juror = evaluator_repo.get_by_evaluation_and_user(...)
TgExisting(p) ==
    /\ pc[p] = "tg_existing"
    /\ LET found == GetByEvaluationAndUser(loc[p].eid, loc[p].user)
       IN  IF found # {}
              THEN \E r \in found : Goto(p, "tg_delete", [loc[p] EXCEPT !.jid = r.id])
              ELSE Goto(p, "tg_count", loc[p])
    /\ UNCHANGED <<store, effects>>

\* line 256: evaluator_repo.delete(existing_juror["id"])
TgDelete(p) ==
    /\ pc[p] = "tg_delete"
    /\ evaluators' = {r \in evaluators : r.id # loc[p].jid}
    /\ Goto(p, "tg_left", loc[p])
    /\ UNCHANGED <<hubs, participants, evaluations, nextId, jobs, clock, effects>>

\* lines 259-278: count = count_evaluators(...), direct message, return "left"
TgLeft(p) ==
    /\ pc[p] = "tg_left"
    /\ Return(p, [loc[p] EXCEPT !.n = CountEvaluators(loc[p].eid)], TRUE, "left", FALSE, "left")
    /\ UNCHANGED <<store, effects>>

PoolFullNever(n) == FALSE

\* line 284: current_count >= 3
PoolFull(n) == n >= JuryMax

\* lines 283-289: current_count = count_evaluators(...); reject when the pool is full
TgCount(p) ==
    /\ pc[p] = "tg_count"
    /\ LET n == CountEvaluators(loc[p].eid)
       IN  IF PoolFull(n)
              THEN Return(p, loc[p], FALSE, "full", FALSE, "full")
              ELSE Goto(p, "tg_create", [loc[p] EXCEPT !.n = n])
    /\ UNCHANGED <<store, effects>>

\* lines 291-316: evaluator_repo.create, current_count += 1, direct message
TgCreate(p) ==
    /\ pc[p] = "tg_create"
    /\ evaluators' = evaluators \cup
          {[id |-> nextId, evaluation_id |-> loc[p].eid, user_id |-> loc[p].user, vote |-> None]}
    /\ nextId' = nextId + 1
    /\ LET l == [loc[p] EXCEPT !.n = loc[p].n + 1, !.jid = nextId]
       IN  IF PoolFull(l.n)
              THEN Goto(p, "tg_list", l)
              ELSE Return(p, l, TRUE, "joined", FALSE, "joined")
    /\ UNCHANGED <<hubs, participants, evaluations, jobs, clock, effects>>

\* lines 318-323: all_jurors = list_by_evaluation(...); the channel of the fetched evaluation
TgList(p) ==
    /\ pc[p] = "tg_list"
    /\ LET l == [loc[p] EXCEPT !.ids = EvaluatorsOf(loc[p].eid)]
       IN  IF loc[p].ev.channel # 0
              THEN Goto(p, "tg_invite", l)
              ELSE Return(p, l, TRUE, "joined", TRUE, "joined")
    /\ UNCHANGED <<store, effects>>

\* lines 324-359: conv.invite_users(eval_channel_id, juror_ids) and the announcement
\* (whether the gateway succeeds or fails, the call returns is_full)
TgInvite(p) ==
    /\ pc[p] = "tg_invite"
    /\ fillLog' = [fillLog EXCEPT ![loc[p].eid] =
                      Append(@, [n |-> Cardinality(loc[p].ids),
                                 users |-> {r.user_id : r \in loc[p].ids}])]
    /\ UNCHANGED <<finalWrites, resultPosts, archives, activations>>
    /\ Return(p, loc[p], TRUE, "joined", TRUE, "joined")
    /\ UNCHANGED store

(***************************************************************************)
(* submit_vote                                                             *)
(***************************************************************************)
\* line 440: vote.lower()
Lower(v) == CASE v = "True" -> "true" [] v = "False" -> "false" [] OTHER -> v

\* lines 379-421: fetch the evaluation and its hub; admin, creator and participants
\* may not vote
SubmitVote(p, e, u, v) ==
    /\ Begin(p)
    /\ LET l == [NoLoc EXCEPT !.op = "submit_vote", !.eid = e, !.user = u, !.arg = v,
                              !.ev = evaluations[e], !.hub = evaluations[e].hub]
       IN  IF ~Exists(e)
              THEN Return(p, l, FALSE, None, FALSE, "not_found")
              ELSE IF u = ADMIN_USER_ID
                      THEN Return(p, l, FALSE, None, FALSE, "admin_cannot_vote")
                      ELSE IF u = hubs[l.hub].creator
                              THEN Return(p, l, FALSE, None, FALSE, "creator_cannot_vote")
                              ELSE IF u \in ParticipantIds(l.hub)
                                      THEN Return(p, l, FALSE, None, FALSE, "member_cannot_vote")
                                      ELSE Goto(p, "sv_get", l)
    /\ UNCHANGED <<store, effects>>

AlreadyVotedNever(r) == FALSE

\* line 432: if evaluator.get("vote")
AlreadyVoted(r) == r.vote # None

\* lines 423-436: evaluator = get_by_evaluation_and_user(...); reject a non-juror
\* and a juror whose vote is already set
SvGet(p) ==
    /\ pc[p] = "sv_get"
    /\ LET found == GetByEvaluationAndUser(loc[p].eid, loc[p].user)
       IN  IF found = {}
              THEN Return(p, loc[p], FALSE, None, FALSE, "not_juror")
              ELSE \E r \in found :
                      IF AlreadyVoted(r)
                         THEN Return(p, loc[p], FALSE, None, FALSE, "already_voted")
                         ELSE Goto(p, "sv_update", [loc[p] EXCEPT !.jid = r.id])
    /\ UNCHANGED <<store, effects>>

\* lines 438-442: evaluator_repo.update(evaluator["id"], {"vote": vote.lower(), ...})
SvUpdate(p) ==
    /\ pc[p] = "sv_update"
    /\ evaluators' = {IF r.id = loc[p].jid THEN [r EXCEPT !.vote = Lower(loc[p].arg)] ELSE r
                        : r \in evaluators}
    /\ Goto(p, "sv_votes", loc[p])
    /\ UNCHANGED <<hubs, participants, evaluations, nextId, jobs, clock, effects>>

\* line 445: votes = evaluator_repo.get_votes(evaluation_id)
SvVotes(p) ==
    /\ pc[p] = "sv_votes"
    /\ Goto(p, "sv_tally", [loc[p] EXCEPT !.tv = GetVotes(loc[p].eid).true,
                                          !.fv = GetVotes(loc[p].eid).false])
    /\ UNCHANGED <<store, effects>>

VotesRecordedFinalizes(ev, tv, fv) ==
    IF tv + fv >= JuryMax
       THEN [ev EXCEPT !.true_votes = tv, !.false_votes = fv,
                       !.status = "completed", !.final_result = "failed"]
       ELSE [ev EXCEPT !.true_votes = tv, !.false_votes = fv]

\* lines 446-555: what submit_vote writes to the evaluation row: the tallies; with
\* three votes in it only sends the prompt for the administrator
VotesRecorded(ev, tv, fv) == [ev EXCEPT !.true_votes = tv, !.false_votes = fv]

\* lines 455-555: with three votes in, the prompt for the administrator is posted
\* when the evaluation fetched at the start of the call has a public repository;
\* otherwise the team is reminded of the repository
PromptAfterVote(ev, tv, fv) ==
    IF tv + fv >= JuryMax /\ ev.channel # 0
       THEN IF ev.url # None /\ ev.public = 1 THEN "admin_prompt" ELSE "repo_reminder"
       ELSE None

\* lines 446-560: evaluation_repo.update_votes(...), the prompt once 3 votes are in
\* (posting failures are swallowed), return success
SvTally(p) ==
    /\ pc[p] = "sv_tally"
    /\ evaluations' = [evaluations EXCEPT ![loc[p].eid] =
                          IF Exists(loc[p].eid)
                             THEN VotesRecorded(@, loc[p].tv, loc[p].fv)
                             ELSE @]
    /\ Return(p, loc[p], TRUE, PromptAfterVote(loc[p].ev, loc[p].tv, loc[p].fv), FALSE, "voted")
    /\ UNCHANGED <<hubs, participants, evaluators, nextId, jobs, clock, effects>>

(***************************************************************************)
(* submit_github_link                                                      *)
(***************************************************************************)
GithubUrls == {PubUrl, PrivUrl, "github.com/team"}

\* lines 710-713: _is_valid_github_url
IsValidGithubUrl(url) == url \in {PubUrl, PrivUrl}

\* lines 695-708: what the GitHub API call gives for a repository: an answer 200
\* with the private field, another status code, or an exception (timeout)
RepoAnswers(url) ==
    IF url = PubUrl THEN {"200 public", "500", "timeout"}
                    ELSE {"200 private", "404", "500", "timeout"}

CheckAnyAnswerPublic(answer) == answer # "timeout"

\* lines 682-708: check_github_repo_public is true only for status 200 with
\* private = false; every other answer and every exception give false
CheckGithubRepoPublic(answer) == answer = "200 public"

\* lines 576-591: the evaluation is fetched, the URL format checked and the
\* repository looked up
SubmitGithubLink(p, e, url) ==
    /\ Begin(p)
    /\ \E answer \in RepoAnswers(url) :
          LET l == [NoLoc EXCEPT !.op = "submit_github_link", !.eid = e, !.arg = url,
                                 !.ev = evaluations[e],
                                 !.n = IF CheckGithubRepoPublic(answer) THEN 1 ELSE 0]
          IN  IF ~Exists(e)
                 THEN Return(p, [l EXCEPT !.n = 0], FALSE, None, FALSE, "not_found")
                 ELSE IF ~IsValidGithubUrl(url)
                         THEN Return(p, [l EXCEPT !.n = 0], FALSE, None, FALSE, "invalid_url")
                         ELSE Goto(p, "gl_update", l)
    /\ UNCHANGED <<store, effects>>

\* lines 594-600, 671-674: the link and the outcome of the lookup are stored
GlUpdate(p) ==
    /\ pc[p] = "gl_update"
    /\ evaluations' = [evaluations EXCEPT ![loc[p].eid] =
                          [@ EXCEPT !.url = loc[p].arg, !.public = loc[p].n]]
    /\ IF loc[p].n = 1
          THEN Goto(p, "gl_votes", loc[p])
          ELSE Return(p, loc[p], TRUE, None, FALSE, "private")
    /\ UNCHANGED <<hubs, participants, evaluators, nextId, jobs, clock, effects>>

\* lines 601-669: votes = evaluator_repo.get_votes(...); with three votes in, the
\* prompt for the administrator is posted to the evaluation channel
GlVotes(p) ==
    /\ pc[p] = "gl_votes"
    /\ LET v == GetVotes(loc[p].eid)
       IN  IF v.true + v.false >= JuryMax
              THEN Return(p, loc[p], TRUE,
                          IF loc[p].ev.channel # 0 THEN "admin_prompt" ELSE None,
                          FALSE, "awaiting_admin")
              ELSE Return(p, loc[p], TRUE, None, FALSE, "saved")
    /\ UNCHANGED <<store, effects>>

(***************************************************************************)
(* finalize_evaluation, admin_finalize_evaluation                          *)
(***************************************************************************)
\* the envelope of the call that ran finalize_evaluation: admin_finalize_evaluation
\* reports success whatever finalize_evaluation did (lines 755-766); the scheduler
\* discards the coroutine's result
FinalizeReturn(p, msg) ==
    IF loc[p].op = "admin_finalize"
       THEN Return(p, loc[p], TRUE, None, FALSE, loc[p].arg)
       ELSE Return(p, loc[p], TRUE, None, FALSE, msg)

\* cron_client.py 35-44, 79-86: the one-off job finalize_evaluation_<id> fires once
TimerFires(p, e) ==
    /\ Begin(p)
    /\ e \in DOMAIN jobs
    /\ jobs' = [j \in DOMAIN jobs \ {e} |-> jobs[j]]
    /\ Goto(p, "f_get", [NoLoc EXCEPT !.op = "finalize", !.eid = e])
    /\ UNCHANGED <<hubs, participants, evaluations, evaluators, nextId, clock, effects>>

\* bot.py 221-229: the hourly check finalizes every evaluation not yet completed
CheckPendingEvaluations(p, e) ==
    /\ Begin(p)
    /\ Exists(e) /\ evaluations[e].status # "completed"
    /\ Goto(p, "f_get", [NoLoc EXCEPT !.op = "finalize", !.eid = e])
    /\ UNCHANGED <<store, effects>>

FinalizableUnlessPending(ev) == ev.status # "pending"

\* line 783: the call goes on only if evaluation.get("status") == "evaluating"
Finalizable(ev) == ev.status = "evaluating"

\* lines 778-785: evaluation = evaluation_repo.get(...); status guard
FGet(p) ==
    /\ pc[p] = "f_get"
    /\ IF ~Exists(loc[p].eid)
          THEN FinalizeReturn(p, "not_found")
          ELSE IF ~Finalizable(evaluations[loc[p].eid])
                  THEN FinalizeReturn(p, "noop")
                  ELSE Goto(p, "f_votes", [loc[p] EXCEPT !.ev = evaluations[loc[p].eid],
                                                         !.hub = evaluations[loc[p].eid].hub])
    /\ UNCHANGED <<store, effects>>

FinalResultTie(adm, tv, fv, public, url) ==
    IF adm = "rejected" THEN "failed"
    ELSE IF tv >= fv /\ public = 1 /\ url # None THEN "success"
    ELSE "failed"

\* lines 796-804: the decision rule
FinalResult(adm, tv, fv, public, url) ==
    IF adm = "rejected" THEN "failed"
    ELSE IF tv > fv /\ public = 1 /\ url # None THEN "success"
    ELSE "failed"

FailureReasonsFirstOnly(adm, tv, fv, public, url) ==
    IF adm = "rejected" THEN {"admin_rejected"}
    ELSE IF tv > fv /\ public = 1 /\ url # None THEN {}
    ELSE IF tv <= fv THEN {"votes"}
    ELSE IF url = None THEN {"no_url"}
    ELSE {"not_public"}

\* lines 797-812: the reasons listed in result_message
FailureReasons(adm, tv, fv, public, url) ==
    IF adm = "rejected" THEN {"admin_rejected"}
    ELSE IF tv > fv /\ public = 1 /\ url # None THEN {}
    ELSE (IF tv <= fv THEN {"votes"} ELSE {})
         \cup (IF url = None THEN {"no_url"}
                ELSE IF public # 1 THEN {"not_public"} ELSE {})

\* lines 787-812: votes = evaluator_repo.get_votes(...); the result is computed
FVotes(p) ==
    /\ pc[p] = "f_votes"
    /\ LET v == GetVotes(loc[p].eid)
       IN  Goto(p, "f_update",
                [loc[p] EXCEPT !.tv = v.true, !.fv = v.false,
                               !.res = FinalResult(loc[p].arg, v.true, v.false,
                                                   loc[p].ev.public, loc[p].ev.url),
                               !.reasons = FailureReasons(loc[p].arg, v.true, v.false,
                                                          loc[p].ev.public, loc[p].ev.url)])
    /\ UNCHANGED <<store, effects>>

\* lines 814-819: evaluation_repo.update(status "completed", final_result, completed_at)
FUpdate(p) ==
    /\ pc[p] = "f_update"
    /\ clock' = clock + 1
    /\ evaluations' = [evaluations EXCEPT ![loc[p].eid] =
                          [@ EXCEPT !.status = "completed", !.final_result = loc[p].res,
                                    !.completed_at = clock + 1]]
    /\ finalWrites' = [finalWrites EXCEPT ![loc[p].eid] = @ + 1]
    /\ Goto(p, "f_hub", loc[p])
    /\ UNCHANGED <<hubs, participants, evaluators, nextId, jobs,
                   fillLog, resultPosts, archives, activations>>

\* lines 821-830: hub_repo.update(status "completed", completed_at)
FHub(p) ==
    /\ pc[p] = "f_hub"
    /\ clock' = clock + 1
    /\ hubs' = [hubs EXCEPT ![loc[p].hub] =
                   [@ EXCEPT !.status = "completed", !.completed_at = clock + 1]]
    /\ Goto(p, "f_post", loc[p])
    /\ UNCHANGED <<participants, evaluations, evaluators, nextId, jobs, effects>>

\* lines 821-830, 886-889: hub_repo.get or hub_repo.update raises; the outer except
\* logs the error and the call ends with the evaluation already written
FHubFails(p) ==
    /\ pc[p] = "f_hub"
    /\ FinalizeReturn(p, "error")
    /\ UNCHANGED <<store, effects>>

\* lines 832-875: the result message is sent to the hub's channels (whether the
\* gateway delivers it or fails, the call goes on)
FPost(p) ==
    /\ pc[p] = "f_post"
    /\ resultPosts' = [resultPosts EXCEPT ![loc[p].eid] = @ + 1]
    /\ UNCHANGED <<fillLog, finalWrites, archives, activations>>
    /\ Goto(p, "f_archive", loc[p])
    /\ UNCHANGED store

\* lines 877-889: conv.archive_channel of the fetched evaluation's channel (whether
\* the gateway archives it or fails, the call returns)
FArchive(p) ==
    /\ pc[p] = "f_archive"
    /\ archives' = [archives EXCEPT ![loc[p].eid] = IF loc[p].ev.channel # 0 THEN @ + 1 ELSE @]
    /\ UNCHANGED <<fillLog, finalWrites, resultPosts, activations>>
    /\ FinalizeReturn(p, "finalized")
    /\ UNCHANGED store

NotAdministratorNever(u) == FALSE

\* lines 728 and 901: admin_user_id != ADMIN_USER_ID
NotAdministrator(u) == u # ADMIN_USER_ID

\* lines 725-732: only the configured administrator may call
AdminFinalize(p, e, u, a) ==
    /\ Begin(p)
    /\ LET l == [NoLoc EXCEPT !.op = "admin_finalize", !.eid = e, !.user = u, !.arg = a]
       IN  IF NotAdministrator(u)
              THEN Return(p, l, FALSE, None, FALSE, "not_admin")
              ELSE Goto(p, "af_get", l)
    /\ UNCHANGED <<store, effects>>

AlreadyCompletedNever(ev) == FALSE

\* line 741: evaluation.get("status") == "completed"
AlreadyCompleted(ev) == ev.status = "completed"

\* lines 734-745: evaluation = evaluation_repo.get(...); reject a completed evaluation
AfGet(p) ==
    /\ pc[p] = "af_get"
    /\ IF ~Exists(loc[p].eid)
          THEN Return(p, loc[p], FALSE, None, FALSE, "not_found")
          ELSE IF AlreadyCompleted(evaluations[loc[p].eid])
                  THEN Return(p, loc[p], FALSE, None, FALSE, "already_completed")
                  ELSE Goto(p, "af_update", loc[p])
    /\ UNCHANGED <<store, effects>>

\* lines 747-755: evaluation_repo.update(admin_approval), then finalize_evaluation
AfUpdate(p) ==
    /\ pc[p] = "af_update"
    /\ evaluations' = [evaluations EXCEPT ![loc[p].eid] =
                          IF Exists(loc[p].eid) THEN [@ EXCEPT !.admin_approval = loc[p].arg]
                                                ELSE @]
    /\ Goto(p, "f_get", loc[p])
    /\ UNCHANGED <<hubs, participants, evaluators, nextId, jobs, clock, effects>>

(***************************************************************************)
(* force_complete_evaluation                                               *)
(***************************************************************************)
ForceResults == {"success", "failed"}

\* lines 896-902: only the configured administrator may call
ForceComplete(p, e, u, res) ==
    /\ Begin(p)
    /\ LET l == [NoLoc EXCEPT !.op = "force_complete", !.eid = e, !.user = u, !.arg = res]
       IN  IF NotAdministrator(u)
              THEN Return(p, l, FALSE, None, FALSE, "not_admin")
              ELSE Goto(p, "fc_get", l)
    /\ UNCHANGED <<store, effects>>

\* lines 904-914: evaluation = evaluation_repo.get(...); no status check
FcGet(p) ==
    /\ pc[p] = "fc_get"
    /\ IF ~Exists(loc[p].eid)
          THEN Return(p, loc[p], FALSE, None, FALSE, "not_found")
          ELSE Goto(p, "fc_update", [loc[p] EXCEPT !.ev = evaluations[loc[p].eid],
                                                   !.hub = evaluations[loc[p].eid].hub])
    /\ UNCHANGED <<store, effects>>

\* lines 916-921: evaluation_repo.update(status "completed", final_result, completed_at)
FcUpdate(p) ==
    /\ pc[p] = "fc_update"
    /\ clock' = clock + 1
    /\ evaluations' = [evaluations EXCEPT ![loc[p].eid] =
                          [@ EXCEPT !.status = "completed", !.final_result = loc[p].arg,
                                    !.completed_at = clock + 1]]
    /\ finalWrites' = [finalWrites EXCEPT ![loc[p].eid] = @ + 1]
    /\ Goto(p, "fc_hub", loc[p])
    /\ UNCHANGED <<hubs, participants, evaluators, nextId, jobs,
                   fillLog, resultPosts, archives, activations>>

\* lines 923-929: hub_repo.update(status "completed", completed_at)
FcHub(p) ==
    /\ pc[p] = "fc_hub"
    /\ clock' = clock + 1
    /\ hubs' = [hubs EXCEPT ![loc[p].hub] =
                   [@ EXCEPT !.status = "completed", !.completed_at = clock + 1]]
    /\ IF loc[p].ev.channel # 0
          THEN Goto(p, "fc_post", loc[p])
          ELSE Return(p, loc[p], TRUE, None, FALSE, "forced")
    /\ UNCHANGED <<participants, evaluations, evaluators, nextId, jobs, effects>>

\* lines 923-929, 954-956: hub_repo.update raises; the outer except returns the
\* failure with the evaluation already written
FcHubFails(p) ==
    /\ pc[p] = "fc_hub"
    /\ Return(p, loc[p], FALSE, None, FALSE, "error")
    /\ UNCHANGED <<store, effects>>

\* lines 931-942: the result message is sent to the evaluation channel; if the
\* gateway raises, the archive call of the same try block is skipped
FcPost(p) ==
    /\ pc[p] = "fc_post"
    /\ resultPosts' = [resultPosts EXCEPT ![loc[p].eid] = @ + 1]
    /\ UNCHANGED <<fillLog, finalWrites, archives, activations>>
    /\ \/ Goto(p, "fc_archive", loc[p])
       \/ Return(p, loc[p], TRUE, None, FALSE, "forced")
    /\ UNCHANGED store

\* lines 943-952: conv.archive_channel (whether the gateway archives the channel
\* or fails, the call returns success)
FcArchive(p) ==
    /\ pc[p] = "fc_archive"
    /\ archives' = [archives EXCEPT ![loc[p].eid] = @ + 1]
    /\ UNCHANGED <<fillLog, finalWrites, resultPosts, activations>>
    /\ Return(p, loc[p], TRUE, None, FALSE, "forced")
    /\ UNCHANGED store

(***************************************************************************)
(* join_challenge                                                          *)
(***************************************************************************)
\* the hub id a caller passes: the hub, or an id naming no hub
HubArgs == {"h1", "h0"}

ParticipantsOf(h) == {r \in participants : r.hub = h}

HasParticipantNever(h, u) == FALSE

\* database_client.py 293: UNIQUE(challenge_hub_id, user_id)
HasParticipant(h, u) == \E r \in ParticipantsOf(h) : r.user = u

AtCapacityNever(n, size) == FALSE

\* the pool is already at the hub's team size
AtCapacity(n, size) == n >= size

\* challenge_handler.py 124-140: the request is parsed and join_challenge called;
\* no hub resolves
JoinChallenge(p, h, u) ==
    /\ Begin(p)
    /\ LET l == [NoLoc EXCEPT !.op = "join_challenge", !.hub = h, !.user = u]
       IN  IF h \notin HubIds
              THEN Return(p, l, FALSE, None, FALSE, "not_found")
              ELSE Goto(p, "jn_add", l)
    /\ UNCHANGED <<store, effects>>

\* the participant pool's add: uniqueness check, capacity check and insert in one
\* step; the count after the insert tells the caller whether the pool just filled
JnAdd(p) ==
    /\ pc[p] = "jn_add"
    /\ LET h == loc[p].hub
           n == Cardinality(ParticipantsOf(h))
       IN  IF HasParticipant(h, loc[p].user)
              THEN /\ Return(p, loc[p], FALSE, None, FALSE, "already_participating")
                   /\ UNCHANGED <<participants, nextId>>
              ELSE IF AtCapacity(n, hubs[h].team_size)
                      THEN /\ Return(p, loc[p], FALSE, None, FALSE, "capacity_exceeded")
                           /\ UNCHANGED <<participants, nextId>>
                      ELSE /\ participants' = participants \cup
                                 {[id |-> nextId, hub |-> h, user |-> loc[p].user]}
                           /\ nextId' = nextId + 1
                           /\ IF n + 1 = hubs[h].team_size
                                 THEN Goto(p, "jn_activate", [loc[p] EXCEPT !.n = n + 1])
                                 ELSE Return(p, [loc[p] EXCEPT !.n = n + 1],
                                             TRUE, None, FALSE, "joined")
    /\ UNCHANGED <<hubs, evaluations, evaluators, jobs, clock, effects>>

\* the recruiting -> active transition: the working channel is provisioned, the
\* participants are invited and the deadline callback is scheduled
JnActivate(p) ==
    /\ pc[p] = "jn_activate"
    /\ hubs' = [hubs EXCEPT ![loc[p].hub] = [@ EXCEPT !.status = "active"]]
    /\ activations' = [activations EXCEPT ![loc[p].hub] = @ + 1]
    /\ Return(p, loc[p], TRUE, None, TRUE, "joined")
    /\ UNCHANGED <<participants, evaluations, evaluators, nextId, jobs, clock,
                   fillLog, finalWrites, resultPosts, archives>>

(***************************************************************************)
(* scripts/manage_challenges.py: ChallengeManager.reset_user               *)
(***************************************************************************)
OpenStatuses == {"recruiting", "active"}

RemoveFromEveryHub(ps, hs, u) == {r \in ps : r.user # u}

\* lines 249-261: the user's participant rows in recruiting or active hubs are deleted
RemoveFromOpenHubs(ps, hs, u) ==
    {r \in ps : ~(r.user = u /\ hs[r.hub].status \in OpenStatuses)}

\* lines 264-275: the recruiting or active hubs the user created are cancelled
CancelCreatedHubs(hs, u) ==
    [h \in DOMAIN hs |->
        IF hs[h].creator = u /\ hs[h].status \in OpenStatuses
           THEN [hs[h] EXCEPT !.status = "cancelled"]
           ELSE hs[h]]

\* lines 239-281: both statements run on one connection and are committed together
ResetUser(p, u) ==
    /\ Begin(p)
    /\ participants' = RemoveFromOpenHubs(participants, hubs, u)
    /\ hubs' = CancelCreatedHubs(hubs, u)
    /\ Return(p, [NoLoc EXCEPT !.op = "reset_user", !.user = u], TRUE, None, FALSE, "reset")
    /\ UNCHANGED <<evaluations, evaluators, nextId, jobs, clock, effects>>

(***************************************************************************)
(* core/validators.py: ChallengeStartRequest; handle_start_challenge       *)
(***************************************************************************)
\* a command text is a sequence of tokens; q marks a token written in quotes
Token(q, s) == [q |-> q, s |-> s]

\* int(...) of the numeric tokens that occur in the texts
IntOf(s) ==
    CASE s = "1" -> 1 [] s = "2" -> 2 [] s = "6" -> 6 [] s = "7" -> 7
      [] s = "11" -> 11 [] s = "12" -> 12 [] s = "168" -> 168 [] s = "169" -> 169
      [] OTHER -> 0

\* str.isdigit()
IsDigit(s) == s \in {"1", "2", "6", "7", "11", "12", "168", "169"}

\* validators.py 218-224
ValidThemes == {"AI Chatbot", "Web App", "Data Analysis", "Mobile App", "Automation"}

\* validators.py 237
ValidDifficulties == {"beginner", "intermediate", "advanced"}

\* validators.py 191-243: the Field constraints and the two field validators
ValidFields(team_size, theme, deadline_hours, difficulty) ==
    /\ team_size >= 2 /\ team_size <= 6
    /\ theme \in ValidThemes
    /\ deadline_hours >= 12 /\ deadline_hours <= 168
    /\ difficulty \in ValidDifficulties

Rejected == [ok |-> FALSE, team_size |-> 0, theme |-> None, deadline_hours |-> 0,
             difficulty |-> None]

\* validators.py 246-290: parse_from_text. The theme is the first quoted token;
\* re.sub removes every quoted token before the rest is split
ParseFromText(text) ==
    LET quoted == SelectSeq(text, LAMBDA t : t.q)
        parts  == SelectSeq(text, LAMBDA t : ~t.q)
    IN  IF quoted = <<>> \/ parts = <<>> \/ ~IsDigit(parts[1].s) THEN Rejected
        ELSE LET theme      == quoted[1].s
                 team_size  == IntOf(parts[1].s)
                 hasHours   == Len(parts) > 1 /\ IsDigit(parts[2].s)
                 hours      == IF hasHours THEN IntOf(parts[2].s) ELSE 48
                 rest       == IF hasHours THEN SubSeq(parts, 3, Len(parts)) ELSE Tail(parts)
                 difficulty == IF rest # <<>> THEN rest[1].s ELSE "intermediate"
             IN  IF ValidFields(team_size, theme, hours, difficulty)
                    THEN [ok |-> TRUE, team_size |-> team_size, theme |-> theme,
                          deadline_hours |-> hours, difficulty |-> difficulty]
                    ELSE Rejected

\* the command a user types: /challenge start 4 "AI Chatbot" 48 "advanced"
\* (validators.py 248) or ... 48 intermediate (challenge_handler.py 96); hours and
\* difficulty may be left out
CommandText(r) ==
    <<Token(FALSE, r.team_size), Token(TRUE, r.theme)>>
       \o (IF r.deadline_hours = None THEN <<>> ELSE <<Token(FALSE, r.deadline_hours)>>)
       \o (IF r.difficulty = None THEN <<>> ELSE <<Token(r.quoted, r.difficulty)>>)

\* ids the hub store hands out
NewHubIds == {"h1", "h2", "h3", "h4"}

\* challenge_handler.py 88-99: the text is parsed; a ValueError is answered with
\* the format message and nothing else happens
HandleStartChallenge(p, u, r) ==
    /\ Begin(p)
    /\ LET l == [NoLoc EXCEPT !.op = "start_challenge", !.user = u, !.arg = r]
       IN  IF ParseFromText(CommandText(r)).ok
              THEN Goto(p, "st_start", l)
              ELSE Return(p, l, FALSE, None, FALSE, "format_error")
    /\ UNCHANGED <<store, effects>>

\* challenge_handler.py 101-108: start_challenge creates the hub in recruiting and
\* enrols the creator
StStart(p) ==
    /\ pc[p] = "st_start"
    /\ DOMAIN hubs # NewHubIds
    /\ LET req == ParseFromText(CommandText(loc[p].arg))
           h   == CHOOSE x \in NewHubIds : x \notin DOMAIN hubs
       IN  /\ hubs' = [x \in DOMAIN hubs \cup {h} |->
                         IF x = h
                            THEN [creator |-> loc[p].user, status |-> "recruiting",
                                  completed_at |-> 0, team_size |-> req.team_size,
                                  theme |-> req.theme, deadline_hours |-> req.deadline_hours,
                                  difficulty |-> req.difficulty]
                            ELSE hubs[x]]
           /\ participants' = participants \cup {[hub |-> h, user |-> loc[p].user]}
    /\ Return(p, loc[p], TRUE, None, FALSE, "started")
    /\ UNCHANGED <<evaluations, evaluators, nextId, jobs, clock, effects>>

(***************************************************************************)
(* Initial states.                                                         *)
(***************************************************************************)
TheHub == [creator |-> "creator", status |-> "evaluating", completed_at |-> 0]

InitCommon ==
    /\ hubs = [h \in HubIds |-> TheHub]
    /\ participants = {[hub |-> h, user |-> u] : h \in HubIds, u \in {"creator", "member"}}
    /\ clock = 0
    /\ pc = [p \in Procs |-> "idle"]
    /\ loc = [p \in Procs |-> NoLoc]
    /\ ret = [p \in Procs |-> NoRet]
    /\ fillLog = [e \in EvalIds |-> <<>>]
    /\ finalWrites = [e \in EvalIds |-> 0]
    /\ resultPosts = [e \in EvalIds |-> 0]
    /\ archives = [e \in EvalIds |-> 0]
    /\ activations = [h \in HubIds |-> 0]

\* the store after construction: a hub whose deadline has passed, no evaluation yet
Init ==
    /\ InitCommon
    /\ evaluations = [e \in EvalIds |-> NoEvaluation]
    /\ evaluators = {}
    /\ nextId = 1
    /\ jobs = <<>>

\* the store after a successful start_evaluation: one evaluation in "evaluating"
\* with its channel and its finalize timer, and an empty jury pool
StartedEvaluation == [NoEvaluation EXCEPT !.hub = "h1", !.status = "evaluating", !.channel = 1]

\* the store after a start_evaluation whose channel creation failed
StuckEvaluation == [NoEvaluation EXCEPT !.hub = "h1", !.status = "pending"]

InitialJurors == <<"u1", "u2", "u3">>

\* the finalize timer of evaluation 1, scheduled by start_evaluation at time 0
StartedJobs == AddOnceJob(<<>>, 1, FinalizeDelay)

\* the jury pool after the joins of InitialJurors and the votes vs of some of them
\* ("absent": the user never joined)
PoolOf(vs) ==
    {[id |-> i, evaluation_id |-> 1, user_id |-> InitialJurors[i], vote |-> vs[i]]
        : i \in {j \in 1..Len(InitialJurors) : vs[j] # "absent"}}

\* the store after a successful start_evaluation and the joins of some of
\* InitialJurors: a jury pool of zero to three jurors, nobody has voted
InitJury ==
    /\ InitCommon
    /\ evaluations = [e \in EvalIds |-> IF e = 1 THEN StartedEvaluation ELSE NoEvaluation]
    /\ \E vs \in [1..Len(InitialJurors) -> {"absent", None}] : evaluators = PoolOf(vs)
    /\ nextId = Len(InitialJurors) + 1
    /\ jobs = StartedJobs

\* the store after three joins: a full jury pool, nobody has voted
InitVote ==
    /\ InitCommon
    /\ evaluations = [e \in EvalIds |-> IF e = 1 THEN StartedEvaluation ELSE NoEvaluation]
    /\ evaluators = PoolOf([i \in 1..Len(InitialJurors) |-> None])
    /\ nextId = Len(InitialJurors) + 1
    /\ jobs = StartedJobs

\* the votes of a full pool, up to the order of the jurors: "true" votes first,
\* then "false" votes, then jurors who have not voted
Rank(v) == CASE v = "true" -> 1 [] v = "false" -> 2 [] OTHER -> 3

Tallies ==
    {vs \in [1..Len(InitialJurors) -> {None, "true", "false"}] :
        \A i \in 1..(Len(InitialJurors) - 1) : Rank(vs[i]) <= Rank(vs[i + 1])}

\* (url, verified flag) pairs submit_github_link can have stored
Artifacts == {<<None, 0>>, <<PrivUrl, 0>>, <<PubUrl, 1>>, <<PubUrl, 0>>}

\* the store at some moment of the evaluation phase: a full jury pool with any
\* votes cast and any artifact submitted
InitDecide ==
    /\ InitCommon
    /\ nextId = Len(InitialJurors) + 1
    /\ jobs = StartedJobs
    /\ \E vs \in Tallies, art \in Artifacts :
          /\ evaluators = PoolOf(vs)
          /\ evaluations =
               [e \in EvalIds |->
                  IF e = 1
                     THEN [StartedEvaluation EXCEPT
                              !.url = art[1], !.public = art[2],
                              !.true_votes = Cardinality({i \in DOMAIN vs : vs[i] = "true"}),
                              !.false_votes = Cardinality({i \in DOMAIN vs : vs[i] = "false"})]
                     ELSE NoEvaluation]

\* the stores the finalizers race on: a winning and a losing tally, with a public
\* artifact or none, or an evaluation whose channel could not be created
InitFinal ==
    /\ InitCommon
    /\ nextId = Len(InitialJurors) + 1
    /\ \/ /\ \E vs \in {<<"true", "true", "false">>, <<"true", "false", "false">>},
                art \in {<<None, 0>>, <<PubUrl, 1>>} :
                /\ evaluators = PoolOf(vs)
                /\ evaluations =
                     [e \in EvalIds |->
                        IF e = 1
                           THEN [StartedEvaluation EXCEPT
                                    !.url = art[1], !.public = art[2],
                                    !.true_votes = Cardinality({i \in DOMAIN vs : vs[i] = "true"}),
                                    !.false_votes = Cardinality({i \in DOMAIN vs : vs[i] = "false"})]
                           ELSE NoEvaluation]
          /\ jobs = StartedJobs
       \/ /\ evaluators = {}
          /\ evaluations = [e \in EvalIds |-> IF e = 1 THEN StuckEvaluation ELSE NoEvaluation]
          /\ jobs = <<>>

NextStart ==
    \E p \in Procs :
        \/ \E h \in HubIds : StartEvaluation(p, h)
        \/ SeCheck(p)
        \/ SeCreate(p)
        \/ SeChannel(p)
        \/ SeUpdate(p)
        \/ SeSchedule(p)
        \/ SePost(p)

SpecStart == Init /\ [][NextStart]_vars

NextJury ==
    \E p \in Procs :
        \/ \E e \in EvalArgs, u \in UserIds : ToggleJuror(p, e, u)
        \/ TgExisting(p)
        \/ TgDelete(p)
        \/ TgLeft(p)
        \/ TgCount(p)
        \/ TgCreate(p)
        \/ TgList(p)
        \/ TgInvite(p)

SpecJury == InitJury /\ [][NextJury]_vars

NextVote ==
    \E p \in Procs :
        \/ \E e \in EvalArgs, u \in UserIds, v \in VoteInputs : SubmitVote(p, e, u, v)
        \/ SvGet(p)
        \/ SvUpdate(p)
        \/ SvVotes(p)
        \/ SvTally(p)

SpecVote == InitVote /\ [][NextVote]_vars

\* the store while votes come in: a full pool where either nobody has voted or
\* two of the three jurors have
InitTally ==
    /\ InitCommon
    /\ evaluations = [e \in EvalIds |-> IF e = 1 THEN StartedEvaluation ELSE NoEvaluation]
    /\ \E vs \in {<<None, None, None>>, <<None, "true", "false">>} : evaluators = PoolOf(vs)
    /\ nextId = Len(InitialJurors) + 1
    /\ jobs = StartedJobs

SpecTally == InitTally /\ [][NextVote]_vars

\* votes and repository links come in together
NextLink ==
    \E p \in Procs :
        \/ \E e \in EvalArgs, u \in UserIds, v \in VoteInputs : SubmitVote(p, e, u, v)
        \/ SvGet(p)
        \/ SvUpdate(p)
        \/ SvVotes(p)
        \/ SvTally(p)
        \/ \E e \in EvalArgs, url \in GithubUrls : SubmitGithubLink(p, e, url)
        \/ GlUpdate(p)
        \/ GlVotes(p)

SpecLink == InitTally /\ [][NextLink]_vars

\* repository links are submitted concurrently
NextArtifact ==
    \E p \in Procs :
        \/ \E e \in EvalArgs, url \in GithubUrls : SubmitGithubLink(p, e, url)
        \/ GlUpdate(p)
        \/ GlVotes(p)

SpecArtifact == InitTally /\ [][NextArtifact]_vars

\* toggle_juror calls on a pool whose jurors may have voted
SpecLeave == InitTally /\ [][NextJury]_vars

NextFinal ==
    \E p \in Procs :
        \/ \E e \in EvalIds : TimerFires(p, e)
        \/ \E e \in EvalIds : CheckPendingEvaluations(p, e)
        \/ \E e \in EvalArgs, u \in AdminCallers, a \in Approvals : AdminFinalize(p, e, u, a)
        \/ AfGet(p)
        \/ AfUpdate(p)
        \/ FGet(p)
        \/ FVotes(p)
        \/ FUpdate(p)
        \/ FHub(p)
        \/ FPost(p)
        \/ FArchive(p)

SpecFinal == InitFinal /\ [][NextFinal]_vars

\* the store the administrator's operations act on: an evaluation with a winning
\* tally and a public artifact
InitAdmin ==
    /\ InitCommon
    /\ nextId = Len(InitialJurors) + 1
    /\ evaluators = PoolOf(<<"true", "true", "false">>)
    /\ evaluations =
         [e \in EvalIds |->
            IF e = 1
               THEN [StartedEvaluation EXCEPT !.url = PubUrl, !.public = 1,
                                              !.true_votes = 2, !.false_votes = 1]
               ELSE NoEvaluation]
    /\ jobs = StartedJobs

NextAdmin ==
    \E p \in Procs :
        \/ \E e \in EvalIds : TimerFires(p, e)
        \/ \E e \in EvalArgs, u \in AdminCallers, a \in Approvals : AdminFinalize(p, e, u, a)
        \/ AfGet(p)
        \/ AfUpdate(p)
        \/ FGet(p)
        \/ FVotes(p)
        \/ FUpdate(p)
        \/ FHub(p)
        \/ FPost(p)
        \/ FArchive(p)
        \/ \E e \in EvalArgs, u \in AdminCallers, res \in ForceResults : ForceComplete(p, e, u, res)
        \/ FcGet(p)
        \/ FcUpdate(p)
        \/ FcHub(p)
        \/ FcPost(p)
        \/ FcArchive(p)

SpecAdmin == InitAdmin /\ [][NextAdmin]_vars

\* a hub after start_challenge: recruiting, the creator enrolled as the first
\* participant
RecruitingHub ==
    [creator |-> "creator", status |-> "recruiting", completed_at |-> 0, team_size |-> TeamSize]

InitJoin ==
    /\ hubs = [h \in HubIds |-> RecruitingHub]
    /\ participants = {[id |-> 1, hub |-> h, user |-> "creator"] : h \in HubIds}
    /\ nextId = 2
    /\ evaluations = [e \in EvalIds |-> NoEvaluation]
    /\ evaluators = {}
    /\ jobs = <<>>
    /\ clock = 0
    /\ pc = [p \in Procs |-> "idle"]
    /\ loc = [p \in Procs |-> NoLoc]
    /\ ret = [p \in Procs |-> NoRet]
    /\ fillLog = [e \in EvalIds |-> <<>>]
    /\ finalWrites = [e \in EvalIds |-> 0]
    /\ resultPosts = [e \in EvalIds |-> 0]
    /\ archives = [e \in EvalIds |-> 0]
    /\ activations = [h \in HubIds |-> 0]

NextJoin ==
    \E p \in Procs :
        \/ \E h \in HubArgs, u \in UserIds : JoinChallenge(p, h, u)
        \/ JnAdd(p)
        \/ JnActivate(p)

SpecJoin == InitJoin /\ [][NextJoin]_vars

\* one-off jobs are scheduled again while the finalize timer of evaluation 1 is
\* pending, and the timer fires
NextCron ==
    \E p \in Procs :
        \/ \E id \in EvalIds, d \in Delays : ScheduleOnce(p, id, d)
        \/ \E e \in EvalIds : TimerFires(p, e)
        \/ FGet(p)
        \/ FVotes(p)
        \/ FUpdate(p)
        \/ FHub(p)
        \/ FPost(p)
        \/ FArchive(p)

SpecCron == InitAdmin /\ [][NextCron]_vars

\* the store after the third join filled the pool and the jurors were invited
InitRefill ==
    /\ hubs = [h \in HubIds |-> TheHub]
    /\ participants = {[hub |-> h, user |-> u] : h \in HubIds, u \in {"creator", "member"}}
    /\ evaluations = [e \in EvalIds |-> IF e = 1 THEN StartedEvaluation ELSE NoEvaluation]
    /\ evaluators = PoolOf([i \in 1..Len(InitialJurors) |-> None])
    /\ nextId = Len(InitialJurors) + 1
    /\ jobs = StartedJobs
    /\ clock = 0
    /\ pc = [p \in Procs |-> "idle"]
    /\ loc = [p \in Procs |-> NoLoc]
    /\ ret = [p \in Procs |-> NoRet]
    /\ fillLog = [e \in EvalIds |->
                    IF e = 1
                       THEN <<[n |-> Len(InitialJurors),
                               users |-> {InitialJurors[i] : i \in 1..Len(InitialJurors)}]>>
                       ELSE <<>>]
    /\ finalWrites = [e \in EvalIds |-> 0]
    /\ resultPosts = [e \in EvalIds |-> 0]
    /\ archives = [e \in EvalIds |-> 0]
    /\ activations = [h \in HubIds |-> 0]

\* toggle_juror calls made one after another
NextRefill ==
    \E p \in Procs :
        \/ (\A q \in Procs \ {p} : pc[q] \in {"idle", "done"})
              /\ \E e \in EvalArgs, u \in UserIds : ToggleJuror(p, e, u)
        \/ TgExisting(p)
        \/ TgDelete(p)
        \/ TgLeft(p)
        \/ TgCount(p)
        \/ TgCreate(p)
        \/ TgList(p)
        \/ TgInvite(p)

SpecRefill == InitRefill /\ [][NextRefill]_vars

\* toggle_juror calls made one after another on a pool of zero to three jurors
SpecToggle == InitJury /\ [][NextRefill]_vars

\* the hubs and users the management script is run against
ManagedHubs == {"h1", "h2"}
ManagedUsers == {"creator", "member"}
HubStatuses == {"recruiting", "active", "evaluating", "completed", "failed", "cancelled"}

InitReset ==
    /\ hubs \in [ManagedHubs -> {[TheHub EXCEPT !.creator = c, !.status = st] :
                                    c \in ManagedUsers, st \in HubStatuses}]
    /\ participants \in SUBSET {[hub |-> h, user |-> u] : h \in ManagedHubs, u \in ManagedUsers}
    /\ nextId = 1
    /\ evaluations = [e \in EvalIds |-> NoEvaluation]
    /\ evaluators = {}
    /\ jobs = <<>>
    /\ clock = 0
    /\ pc = [p \in Procs |-> "idle"]
    /\ loc = [p \in Procs |-> NoLoc]
    /\ ret = [p \in Procs |-> NoRet]
    /\ fillLog = [e \in EvalIds |-> <<>>]
    /\ finalWrites = [e \in EvalIds |-> 0]
    /\ resultPosts = [e \in EvalIds |-> 0]
    /\ archives = [e \in EvalIds |-> 0]
    /\ activations = [h \in HubIds |-> 0]

NextReset == \E p \in Procs, u \in ManagedUsers : ResetUser(p, u)

SpecReset == InitReset /\ [][NextReset]_vars

\* the commands typed: a plain valid command, changed in at most one of its parts
PlainRequest ==
    [team_size |-> "2", theme |-> "AI Chatbot", deadline_hours |-> None,
     difficulty |-> None, quoted |-> FALSE]

StartRequests ==
    {[PlainRequest EXCEPT !.team_size = s] : s \in {"1", "2", "6", "7"}}
       \cup {[PlainRequest EXCEPT !.theme = t] : t \in {"Web App", "Cooking"}}
       \cup {[PlainRequest EXCEPT !.deadline_hours = d] : d \in {"11", "12", "168", "169"}}
       \cup {[PlainRequest EXCEPT !.difficulty = d, !.quoted = q] :
                d \in {"beginner", "advanced", "expert"}, q \in BOOLEAN}

InitRequest ==
    /\ hubs = <<>>
    /\ participants = {}
    /\ nextId = 1
    /\ evaluations = [e \in EvalIds |-> NoEvaluation]
    /\ evaluators = {}
    /\ jobs = <<>>
    /\ clock = 0
    /\ pc = [p \in Procs |-> "idle"]
    /\ loc = [p \in Procs |-> NoLoc]
    /\ ret = [p \in Procs |-> NoRet]
    /\ fillLog = [e \in EvalIds |-> <<>>]
    /\ finalWrites = [e \in EvalIds |-> 0]
    /\ resultPosts = [e \in EvalIds |-> 0]
    /\ archives = [e \in EvalIds |-> 0]
    /\ activations = [h \in HubIds |-> 0]

NextRequest ==
    \E p \in Procs :
        \/ \E u \in ManagedUsers, r \in StartRequests : HandleStartChallenge(p, u, r)
        \/ StStart(p)

SpecRequest == InitRequest /\ [][NextRequest]_vars

\* the administrator decides while the finalize timer of the evaluation is pending
NextReject ==
    \E p \in Procs :
        \/ \E e \in EvalIds : TimerFires(p, e)
        \/ \E e \in EvalArgs, u \in AdminCallers, a \in Approvals : AdminFinalize(p, e, u, a)
        \/ AfGet(p)
        \/ AfUpdate(p)
        \/ FGet(p)
        \/ FVotes(p)
        \/ FUpdate(p)
        \/ FHub(p)
        \/ FPost(p)
        \/ FArchive(p)

SpecReject == InitAdmin /\ [][NextReject]_vars

\* an evaluation is started and the scheduler finalizes it, no administrator acts;
\* a call is taken up only when the call before it has returned
NextLifecycle ==
    \E p \in Procs :
        \/ (\A q \in Procs \ {p} : pc[q] \in {"idle", "done"})
              /\ \E h \in HubIds : StartEvaluation(p, h)
        \/ SeCheck(p)
        \/ SeCreate(p)
        \/ SeChannel(p)
        \/ SeUpdate(p)
        \/ SeSchedule(p)
        \/ SePost(p)
        \/ (\A q \in Procs \ {p} : pc[q] \in {"idle", "done"})
              /\ \E e \in EvalIds : TimerFires(p, e)
        \/ (\A q \in Procs \ {p} : pc[q] \in {"idle", "done"})
              /\ \E e \in EvalIds : CheckPendingEvaluations(p, e)
        \/ FGet(p)
        \/ FVotes(p)
        \/ FUpdate(p)
        \/ FHub(p)
        \/ FPost(p)
        \/ FArchive(p)

\* the store before start_evaluation: the hub is active when its deadline passes,
\* or was already moved to evaluating by the caller; no evaluation exists
InitLifecycle ==
    /\ \E st \in {"active", "evaluating"} :
          hubs = [h \in HubIds |-> [TheHub EXCEPT !.status = st]]
    /\ participants = {[hub |-> h, user |-> u] : h \in HubIds, u \in {"creator", "member"}}
    /\ evaluations = [e \in EvalIds |-> NoEvaluation]
    /\ evaluators = {}
    /\ nextId = 1
    /\ jobs = <<>>
    /\ clock = 0
    /\ pc = [p \in Procs |-> "idle"]
    /\ loc = [p \in Procs |-> NoLoc]
    /\ ret = [p \in Procs |-> NoRet]
    /\ fillLog = [e \in EvalIds |-> <<>>]
    /\ finalWrites = [e \in EvalIds |-> 0]
    /\ resultPosts = [e \in EvalIds |-> 0]
    /\ archives = [e \in EvalIds |-> 0]
    /\ activations = [h \in HubIds |-> 0]

SpecLifecycle == InitLifecycle /\ [][NextLifecycle]_vars

\* the finalizers and force_complete_evaluation while the hub store may fail
NextFault ==
    \E p \in Procs :
        \/ \E e \in EvalIds : TimerFires(p, e)
        \/ \E e \in EvalArgs, u \in AdminCallers, a \in Approvals : AdminFinalize(p, e, u, a)
        \/ AfGet(p)
        \/ AfUpdate(p)
        \/ FGet(p)
        \/ FVotes(p)
        \/ FUpdate(p)
        \/ FHub(p)
        \/ FHubFails(p)
        \/ FPost(p)
        \/ FArchive(p)
        \/ \E e \in EvalArgs, u \in AdminCallers, res \in ForceResults : ForceComplete(p, e, u, res)
        \/ FcGet(p)
        \/ FcUpdate(p)
        \/ FcHub(p)
        \/ FcHubFails(p)
        \/ FcPost(p)
        \/ FcArchive(p)

SpecFault == InitAdmin /\ [][NextFault]_vars

\* force_complete_evaluation calls made one after another
NextForce ==
    \E p \in Procs :
        \/ (\A q \in Procs \ {p} : pc[q] \in {"idle", "done"})
              /\ \E e \in EvalArgs, u \in AdminCallers, res \in ForceResults :
                    ForceComplete(p, e, u, res)
        \/ FcGet(p)
        \/ FcUpdate(p)
        \/ FcHub(p)
        \/ FcPost(p)
        \/ FcArchive(p)

SpecForce == InitFinal /\ [][NextForce]_vars

\* the store after the timer finalized evaluation 1 with one true and one false
\* vote and no repository: evaluation and hub are completed, no job is pending
InitCompleted ==
    /\ hubs = [h \in HubIds |-> [TheHub EXCEPT !.status = "completed", !.completed_at = 2]]
    /\ participants = {[hub |-> h, user |-> u] : h \in HubIds, u \in {"creator", "member"}}
    /\ evaluations =
         [e \in EvalIds |->
            IF e = 1
               THEN [StartedEvaluation EXCEPT !.status = "completed", !.final_result = "failed",
                                              !.completed_at = 1,
                                              !.true_votes = 1, !.false_votes = 1]
               ELSE NoEvaluation]
    /\ evaluators = PoolOf(<<None, "true", "false">>)
    /\ nextId = Len(InitialJurors) + 1
    /\ jobs = <<>>
    /\ clock = 2
    /\ pc = [p \in Procs |-> "idle"]
    /\ loc = [p \in Procs |-> NoLoc]
    /\ ret = [p \in Procs |-> NoRet]
    /\ fillLog = [e \in EvalIds |-> <<>>]
    /\ finalWrites = [e \in EvalIds |-> IF e = 1 THEN 1 ELSE 0]
    /\ resultPosts = [e \in EvalIds |-> IF e = 1 THEN 1 ELSE 0]
    /\ archives = [e \in EvalIds |-> IF e = 1 THEN 1 ELSE 0]
    /\ activations = [h \in HubIds |-> 0]

\* jurors, voters and the team keep calling after the evaluation was completed
NextFrozen ==
    \E p \in Procs :
        \/ \E e \in EvalArgs, u \in UserIds : ToggleJuror(p, e, u)
        \/ TgExisting(p)
        \/ TgDelete(p)
        \/ TgLeft(p)
        \/ TgCount(p)
        \/ TgCreate(p)
        \/ TgList(p)
        \/ TgInvite(p)
        \/ \E e \in EvalArgs, u \in UserIds, v \in VoteInputs : SubmitVote(p, e, u, v)
        \/ SvGet(p)
        \/ SvUpdate(p)
        \/ SvVotes(p)
        \/ SvTally(p)
        \/ \E e \in EvalArgs, url \in GithubUrls : SubmitGithubLink(p, e, url)
        \/ GlUpdate(p)
        \/ GlVotes(p)

SpecFrozen == InitCompleted /\ [][NextFrozen]_vars

\* an evaluation is started while the administrator may force it complete
NextRestart ==
    \E p \in Procs :
        \/ \E h \in HubIds : StartEvaluation(p, h)
        \/ SeCheck(p)
        \/ SeCreate(p)
        \/ SeChannel(p)
        \/ SeUpdate(p)
        \/ SeSchedule(p)
        \/ SePost(p)
        \/ \E e \in EvalArgs, u \in AdminCallers, res \in ForceResults : ForceComplete(p, e, u, res)
        \/ FcGet(p)
        \/ FcUpdate(p)
        \/ FcHub(p)
        \/ FcPost(p)
        \/ FcArchive(p)

SpecRestart == Init /\ [][NextRestart]_vars

\* one call at a time: a thread steps only while no other thread is inside a call
Alone(p) == \A q \in Procs \ {p} : pc[q] \in {"idle", "done"}

NextDecide ==
    \E p \in Procs :
        \/ Alone(p) /\ \E e \in EvalIds : TimerFires(p, e)
        \/ Alone(p) /\ \E e \in EvalIds : CheckPendingEvaluations(p, e)
        \/ Alone(p) /\ \E e \in EvalArgs, u \in AdminCallers, a \in Approvals : AdminFinalize(p, e, u, a)
        \/ Alone(p) /\ AfGet(p)
        \/ Alone(p) /\ AfUpdate(p)
        \/ Alone(p) /\ FGet(p)
        \/ Alone(p) /\ FVotes(p)
        \/ Alone(p) /\ FUpdate(p)
        \/ Alone(p) /\ FHub(p)
        \/ Alone(p) /\ FPost(p)
        \/ Alone(p) /\ FArchive(p)

SpecDecide == InitDecide /\ [][NextDecide]_vars

\* scripts/manage_challenges.py 155: the statuses a hub keeps for good
TerminalStatuses == {"completed", "failed", "cancelled"}

\* the store after the hub was closed (finalized, failed, or cancelled by
\* manage_challenges.py) and before any evaluation of it was started
InitTerminal ==
    /\ \E st \in TerminalStatuses :
          hubs = [h \in HubIds |-> [TheHub EXCEPT !.status = st]]
    /\ participants = {[hub |-> h, user |-> u] : h \in HubIds, u \in {"creator", "member"}}
    /\ clock = 0
    /\ pc = [p \in Procs |-> "idle"]
    /\ loc = [p \in Procs |-> NoLoc]
    /\ ret = [p \in Procs |-> NoRet]
    /\ fillLog = [e \in EvalIds |-> <<>>]
    /\ finalWrites = [e \in EvalIds |-> 0]
    /\ resultPosts = [e \in EvalIds |-> 0]
    /\ archives = [e \in EvalIds |-> 0]
    /\ activations = [h \in HubIds |-> 0]
    /\ evaluations = [e \in EvalIds |-> NoEvaluation]
    /\ evaluators = {}
    /\ nextId = 1
    /\ jobs = <<>>

NextTerminal == NextStart \/ NextFinal

SpecTerminal == InitTerminal /\ [][NextTerminal]_vars

(***************************************************************************)
(* Properties of the hub lifecycle.                                        *)
(***************************************************************************)
\* C11: once a hub's status is completed, failed or cancelled, no step of a
\* start_evaluation, timer finalize or admin finalize call changes it
C11_TerminalHubKeepsStatus ==
    [][\A h \in HubIds :
          hubs[h].status \in TerminalStatuses => hubs'[h].status = hubs[h].status]_vars

\* C19: the number of Participant records of a hub never exceeds its team size
\* under concurrent join_challenge calls, and the recruiting -> active transition
\* is performed once, by the join that brings the count to the team size
C19_TeamNeverOverfull ==
    \A h \in HubIds :
        LET n == Cardinality({r \in participants : r.hub = h})
        IN  /\ n <= hubs[h].team_size
            /\ activations[h] <= 1
            /\ activations[h] = 1 => n = hubs[h].team_size /\ hubs[h].status = "active"
            /\ (n = hubs[h].team_size /\ activations[h] = 0)
                  => \E p \in Procs : /\ pc[p] = "jn_activate"
                                      /\ loc[p].hub = h
                                      /\ loc[p].n = hubs[h].team_size
            /\ Cardinality({p \in Procs : pc[p] = "jn_activate" /\ loc[p].hub = h}) <= 1

\* the team is complete and active after one transition, and a later join was
\* turned away for capacity
C19_Witness ==
    /\ Cardinality({r \in participants : r.hub = "h1"}) = TeamSize
    /\ hubs["h1"].status = "active"
    /\ activations["h1"] = 1
    /\ \E p \in Procs : pc[p] = "done" /\ ret[p].op = "join_challenge"
                        /\ ret[p].msg = "capacity_exceeded" /\ ~ret[p].success

\* threads whose finished join_challenge call of user u into the hub had outcome msg
JoinsDone(u, msg) ==
    {p \in Procs : pc[p] = "done" /\ ret[p].op = "join_challenge"
                   /\ ret[p].user = u /\ ret[p].msg = msg}

\* C20: a hub has at most one Participant record per user; of the joins of one
\* user into one hub at most one is accepted, and a join of a user who holds a
\* record is rejected as already participating
C20_OneParticipantPerUser ==
    /\ \A r1, r2 \in participants :
          (r1.hub = r2.hub /\ r1.user = r2.user) => r1.id = r2.id
    /\ \A u \in UserIds :
          /\ Cardinality(JoinsDone(u, "joined")) <= 1
          /\ JoinsDone(u, "joined") # {} => JoinsDone(u, "capacity_exceeded") = {}
          /\ (u = "creator") => JoinsDone(u, "joined") = {}

\* the same user joined the hub twice: one call was accepted, the other was
\* rejected as already participating, and one record exists
C20_Witness ==
    /\ JoinsDone("u1", "joined") # {}
    /\ JoinsDone("u1", "already_participating") # {}
    /\ Cardinality({r \in participants : r.hub = "h1" /\ r.user = "u1"}) = 1

(***************************************************************************)
(* Properties of toggle_juror.                                             *)
(***************************************************************************)
\* C1: the jury pool of an evaluation never holds more than three Evaluator
\* records, whatever the interleaving of concurrent toggle_juror calls
C1_PoolNeverExceedsMax ==
    \A e \in EvalIds : Cardinality({r \in evaluators : r.evaluation_id = e}) <= JuryMax

\* no toggle_juror call has withdrawn or is withdrawing a juror
NoWithdrawal ==
    \A p \in Procs : pc[p] \notin {"tg_delete", "tg_left"} /\ ret[p].action # "left"

FullReturns(e) ==
    {p \in Procs : pc[p] = "done" /\ ret[p].op = "toggle_juror" /\ ret[p].eid = e
                   /\ ret[p].is_full}

\* C2: when toggle_juror calls race for the third slot, at most one of them
\* returns is_full = true and the batch invite of the jurors is made once
C2_PoolFillsOnce ==
    NoWithdrawal =>
        \A e \in EvalIds : Cardinality(FullReturns(e)) <= 1 /\ Len(fillLog[e]) <= 1

\* C25: over any sequence of toggle_juror calls on one evaluation, withdrawals
\* after the pool has filled and later joins that refill it included, the batch
\* invite with its announcement is made at most once
C25_FillAtMostOnce ==
    \A e \in EvalIds : Len(fillLog[e]) <= 1

\* C26: whenever the batch invite is made, it names exactly three distinct users
\* and they are exactly the jurors of the evaluation at that moment, under any
\* interleaving with other toggle_juror joins and withdrawals
C26_InviteNamesTheJurors ==
    [][\A e \in EvalIds :
          fillLog'[e] # fillLog[e] =>
             LET inv == fillLog'[e][Len(fillLog'[e])]
             IN  /\ Cardinality(inv.users) = 3
                 /\ inv.n = 3
                 /\ inv.users = {r.user_id : r \in {x \in evaluators : x.evaluation_id = e}}]_vars

\* C33: a user who holds a juror slot can always withdraw with toggle_juror, also
\* when the pool is full: the call takes the withdrawal branch, removes exactly
\* that user's Evaluator record, lowers the count by one, leaves the other jurors
\* unchanged and returns action "left"
C33_HolderWithdraws ==
    [][\A p \in Procs :
          LET mine == {r \in evaluators :
                         r.evaluation_id = loc[p].eid /\ r.user_id = loc[p].user}
          IN  /\ (pc[p] = "tg_existing" /\ pc'[p] # pc[p] /\ mine # {})
                    => pc'[p] = "tg_delete" /\ evaluators' = evaluators
              /\ (pc[p] = "tg_delete" /\ pc'[p] # pc[p])
                    => /\ evaluators' = evaluators \ mine
                       /\ Cardinality(evaluators') = Cardinality(evaluators) - 1
                       /\ pc'[p] = "tg_left"
              /\ (pc[p] = "tg_left" /\ pc'[p] # pc[p])
                    => /\ pc'[p] = "done" /\ ret'[p].success /\ ret'[p].action = "left"
                       /\ evaluators' = evaluators]_vars

\* u1 has withdrawn from the full pool of u1, u2, u3: two jurors are left and no
\* record was created
C33_Witness ==
    /\ \E p \in Procs : /\ pc[p] = "done" /\ ret[p].op = "toggle_juror" /\ ret[p].eid = 1
                        /\ ret[p].user = "u1" /\ ret[p].action = "left"
                        /\ \A q \in Procs \ {p} : pc[q] = "idle"
    /\ {r.user_id : r \in {x \in evaluators : x.evaluation_id = 1}} = {"u2", "u3"}
    /\ nextId = 4

\* the users the eligibility rule keeps out of the jury of a hub's evaluation
ExcludedUsers(h) ==
    {ADMIN_USER_ID, hubs[h].creator} \cup {r.user : r \in {x \in participants : x.hub = h}}

\* C6: no Evaluator record belongs to the hub's creator, a participant or the
\* administrator, and a toggle_juror call by one of them returns success = false
\* with action "none"
C6_ExcludedNeverJuror ==
    /\ \A r \in evaluators : r.user_id \notin ExcludedUsers(evaluations[r.evaluation_id].hub)
    /\ \A p \in Procs :
          (/\ pc[p] = "done"
           /\ ret[p].op = "toggle_juror"
           /\ evaluations[ret[p].eid].status # "absent"
           /\ ret[p].user \in ExcludedUsers(evaluations[ret[p].eid].hub))
             => ret[p].success = FALSE /\ ret[p].action = "none"

\* the administrator and the creator have both called toggle_juror on the
\* evaluation and were turned away, and the pool holds only outsiders
C6_Witness ==
    /\ \E p \in Procs : pc[p] = "done" /\ ret[p].op = "toggle_juror" /\ ret[p].eid = 1
                        /\ ret[p].user = ADMIN_USER_ID /\ ret[p].action = "none"
    /\ \E p \in Procs : pc[p] = "done" /\ ret[p].op = "toggle_juror" /\ ret[p].eid = 1
                        /\ ret[p].user = "creator" /\ ret[p].action = "none"

\* C15: an Evaluator record whose vote has been cast is never deleted: every
\* record holding a vote is still in the store, with its vote, after any step
C15_VotedJurorNeverDeleted ==
    [][\A r \in evaluators : r.vote # None => r \in evaluators']_vars

\* C16: an evaluation has at most one Evaluator record per user, also when the
\* same user issues two toggle_juror calls concurrently
C16_OneEvaluatorPerUser ==
    \A r1, r2 \in evaluators :
        (r1.evaluation_id = r2.evaluation_id /\ r1.user_id = r2.user_id) => r1.id = r2.id

\* C18: a toggle_juror call of a user outside the pool that counts three jurors
\* returns success = false with action "full", creates no Evaluator record and
\* sends no invite
C18_FullPoolRejectsJoin ==
    [][\A p \in Procs :
          (/\ pc[p] = "tg_count"
           /\ Cardinality({r \in evaluators : r.evaluation_id = loc[p].eid}) >= JuryMax
           /\ pc'[p] # pc[p])
             => /\ pc'[p] = "done"
                /\ ret'[p].success = FALSE
                /\ ret'[p].action = "full"
                /\ UNCHANGED <<evaluators, fillLog>>]_vars

\* an outsider was turned away from the full pool of u1, u2 and u3, and no
\* invite was sent
C18_Witness ==
    /\ \E p \in Procs : pc[p] = "done" /\ ret[p].op = "toggle_juror" /\ ret[p].eid = 1
                        /\ ret[p].user = "u4" /\ ret[p].action = "full" /\ ~ret[p].success
    /\ {r.user_id : r \in evaluators} = {"u1", "u2", "u3"}
    /\ Cardinality(evaluators) = JuryMax
    /\ fillLog[1] = <<>>

(***************************************************************************)
(* Properties of submit_vote.                                              *)
(***************************************************************************)
\* C3: a juror's vote is write-once: once an Evaluator record holds a vote, no
\* step changes it, also when the same juror submits twice concurrently
C3_VoteWriteOnce ==
    [][\A r \in evaluators :
          r.vote # None => \A r2 \in evaluators' : r2.id = r.id => r2.vote = r.vote]_vars

\* C17: submit_vote records a vote only for a registered juror of the evaluation
\* who has no vote stored and is neither the administrator, the creator nor a
\* participant; a call that returns success = false leaves the votes and the
\* tallies unchanged
C17_VoteOnlyByFreshJuror ==
    [][/\ \A r \in evaluators : \A r2 \in evaluators' :
             (r2.id = r.id /\ r2.vote # r.vote)
                => /\ r.vote = None
                   /\ r.user_id \notin ExcludedUsers(evaluations[r.evaluation_id].hub)
                   /\ \E p \in Procs : /\ loc[p].op = "submit_vote"
                                       /\ loc[p].user = r.user_id
                                       /\ loc[p].eid = r.evaluation_id
       /\ \A p \in Procs :
             (pc[p] # "done" /\ pc'[p] = "done" /\ ret'[p].op = "submit_vote"
                 /\ ~ret'[p].success)
                => UNCHANGED <<evaluators, evaluations>>]_vars

\* C32: whenever no submit_vote or toggle_juror call is in progress, the true and
\* false tallies stored on the evaluation equal the numbers of its Evaluator
\* records whose vote is "true" and "false", and their sum is at most three
C32_TalliesMatchVotes ==
    (\A p \in Procs : pc[p] \in {"idle", "done"})
       => \A e \in EvalIds :
             Exists(e) =>
                /\ evaluations[e].true_votes =
                      Cardinality({r \in evaluators : r.evaluation_id = e /\ r.vote = "true"})
                /\ evaluations[e].false_votes =
                      Cardinality({r \in evaluators : r.evaluation_id = e /\ r.vote = "false"})
                /\ evaluations[e].true_votes + evaluations[e].false_votes <= 3

\* C12: submit_vote never finalizes: no step of a submit_vote call, the third
\* accepted vote included, changes the status, final_result or completed_at of an
\* evaluation or the hub, sends the result message or archives the channel
C12_VoteNeverFinalizes ==
    [][/\ \A e \in EvalIds :
             /\ evaluations'[e].status = evaluations[e].status
             /\ evaluations'[e].final_result = evaluations[e].final_result
             /\ evaluations'[e].completed_at = evaluations[e].completed_at
       /\ UNCHANGED <<hubs, finalWrites, resultPosts, archives>>]_vars

\* the third vote of the pool has been accepted and stored, and the evaluation is
\* still evaluating with no result
C12_Witness ==
    /\ \E p \in Procs : pc[p] = "done" /\ ret[p].op = "submit_vote" /\ ret[p].eid = 1
                        /\ ret[p].success /\ ret[p].user = "u1"
    /\ \A r \in evaluators : r.vote # None
    /\ evaluations[1].true_votes + evaluations[1].false_votes = JuryMax
    /\ evaluations[1].status = "evaluating"
    /\ evaluations[1].final_result = None
    /\ hubs["h1"].status = "evaluating"
    /\ archives[1] = 0

\* C28: in any interleaving of submit_vote and submit_github_link calls on one
\* evaluation, once all calls have returned and the evaluation has three votes and
\* a stored repository URL verified public, the prompt for the administrator has
\* been posted to the evaluation channel
C28_PromptPosted ==
    \A e \in EvalIds :
        (/\ \A p \in Procs : pc[p] \in {"idle", "done"}
         /\ Exists(e)
         /\ evaluations[e].channel # 0
         /\ Cardinality({r \in evaluators :
                           r.evaluation_id = e /\ r.vote \in {"true", "false"}}) >= 3
         /\ evaluations[e].url # None
         /\ evaluations[e].public = 1)
           => \E p \in Procs :
                 pc[p] = "done" /\ ret[p].eid = e /\ ret[p].action = "admin_prompt"

(***************************************************************************)
(* Properties of finalize_evaluation and admin_finalize_evaluation.        *)
(***************************************************************************)
\* thread p runs finalize_evaluation on an evaluation that it fetches, or has
\* fetched, in status "completed"
FinalizesCompleted(p) ==
    \/ /\ pc[p] = "f_get"
       /\ evaluations[loc[p].eid].status = "completed"
    \/ /\ pc[p] \in {"f_votes", "f_update", "f_hub", "f_post", "f_archive"}
       /\ loc[p].ev.status = "completed"

\* C4: a finalize_evaluation call on an evaluation already completed changes
\* nothing: status, final_result and completed_at of the evaluation and of the hub
\* stay as they are, no result message is sent and no channel is archived; the
\* call returns at once
C4_SecondFinalizeNoOp ==
    [][\A p \in Procs :
          (FinalizesCompleted(p) /\ pc'[p] # pc[p])
             => /\ pc'[p] = "done"
                /\ UNCHANGED <<evaluations, hubs, finalWrites, resultPosts, archives>>]_vars

\* a first call has finalized the evaluation, and the timer's later call found it
\* completed and returned
C4_Witness ==
    \E p, q \in Procs :
        /\ p # q
        /\ pc[p] = "done" /\ ret[p].op = "finalize" /\ ret[p].eid = 1 /\ ret[p].msg = "noop"
        /\ pc[q] = "done" /\ ret[q].eid = 1 /\ ret[q].success
        /\ ret[q].msg \in {"finalized", "approved", "rejected"}
        /\ evaluations[1].status = "completed"
        /\ finalWrites[1] = 1 /\ resultPosts[1] = 1 /\ archives[1] = 1

\* C5: under concurrent finalizers (timer, hourly check, administrator) the
\* transition to completed is taken once: the result is written once, the result
\* message is sent once and the channel is archived once
C5_FinalizedOnce ==
    \A e \in EvalIds : finalWrites[e] <= 1 /\ resultPosts[e] <= 1 /\ archives[e] <= 1

\* the operation and the caller of the call that thread p takes up in this step
StartsAs(p, op) ==
    /\ pc[p] = "idle"
    /\ pc'[p] # "idle"
    /\ IF pc'[p] = "done" THEN ret'[p].op = op ELSE loc'[p].op = op

CallerOf(p) == IF pc'[p] = "done" THEN ret'[p].user ELSE loc'[p].user

\* C13: admin_finalize_evaluation and force_complete_evaluation called by a user
\* other than the administrator return success = false at once and leave the
\* evaluations, the hub, the jury pool, the timer and the channel unchanged
C13_OnlyAdministrator ==
    [][\A p \in Procs :
          ((StartsAs(p, "admin_finalize") \/ StartsAs(p, "force_complete"))
              /\ CallerOf(p) # ADMIN_USER_ID)
             => /\ pc'[p] = "done"
                /\ ret'[p].success = FALSE
                /\ UNCHANGED <<evaluations, hubs, evaluators, participants, jobs,
                               fillLog, finalWrites, resultPosts, archives>>]_vars

\* both operations have been called by a user who is not the administrator and
\* the evaluation is as it was
C13_Witness ==
    /\ \E p \in Procs : pc[p] = "done" /\ ret[p].op = "admin_finalize" /\ ret[p].eid = 1
                        /\ ret[p].user = "u1" /\ ~ret[p].success
    /\ \E p \in Procs : pc[p] = "done" /\ ret[p].op = "force_complete" /\ ret[p].eid = 1
                        /\ ret[p].user = "u1" /\ ~ret[p].success
    /\ evaluations[1].status = "evaluating"
    /\ evaluations[1].admin_approval = None
    /\ evaluations[1].final_result = None

\* C7: finalize_evaluation on an evaluating evaluation writes final_result
\* "success" exactly when the administrator's decision is not "rejected", the
\* true votes outnumber the false votes, a repository URL is stored and it was
\* verified public; otherwise it writes "failed"
C7_DecisionRule ==
    [][\A p \in Procs :
          (pc[p] = "f_update" /\ pc'[p] = "f_hub")
             => LET e == loc[p].eid
                    t == Cardinality({r \in evaluators : r.evaluation_id = e /\ r.vote = "true"})
                    f == Cardinality({r \in evaluators : r.evaluation_id = e /\ r.vote = "false"})
                    wins == /\ loc[p].arg # "rejected"
                            /\ t > f
                            /\ evaluations[e].url # None
                            /\ evaluations[e].public = 1
                IN  /\ evaluations[e].status = "evaluating"
                    /\ evaluations'[e].status = "completed"
                    /\ evaluations'[e].final_result = IF wins THEN "success" ELSE "failed"]_vars

\* the administrator approved an evaluation with a public repository whose true
\* votes do not outnumber the false votes: it is completed as failed
C7_Witness ==
    /\ \E p \in Procs : pc[p] = "done" /\ ret[p].op = "admin_finalize" /\ ret[p].eid = 1
                        /\ ret[p].arg = "approved" /\ ret[p].success
    /\ evaluations[1].status = "completed"
    /\ evaluations[1].final_result = "failed"
    /\ evaluations[1].public = 1
    /\ GetVotes(1).true = GetVotes(1).false

\* C22: when finalize_evaluation yields "failed" without an administrator's
\* rejection, the reasons of its result message are exactly those that apply among:
\* true votes not above false votes, no repository URL, a URL not verified public;
\* the list is never empty
C22_AllReasonsListed ==
    \A p \in Procs :
        (/\ pc[p] \in {"f_update", "f_hub", "f_post", "f_archive"}
         /\ loc[p].res = "failed"
         /\ loc[p].arg # "rejected")
           => LET ev == evaluations[loc[p].eid]
                  t == Cardinality({r \in evaluators :
                                      r.evaluation_id = loc[p].eid /\ r.vote = "true"})
                  f == Cardinality({r \in evaluators :
                                      r.evaluation_id = loc[p].eid /\ r.vote = "false"})
              IN  /\ loc[p].reasons # {}
                  /\ "votes" \in loc[p].reasons <=> ~(t > f)
                  /\ "no_url" \in loc[p].reasons <=> ev.url = None
                  /\ "not_public" \in loc[p].reasons <=> (ev.url # None /\ ev.public # 1)
                  /\ loc[p].reasons \subseteq {"votes", "no_url", "not_public"}

\* one true vote, two false votes and no repository: both reasons are listed
C22_Witness ==
    \E p \in Procs :
        /\ pc[p] = "f_post"
        /\ loc[p].res = "failed"
        /\ loc[p].arg = None
        /\ loc[p].tv = 1 /\ loc[p].fv = 2
        /\ loc[p].ev.url = None
        /\ loc[p].reasons = {"votes", "no_url"}

\* C8: once admin_finalize_evaluation, called by the administrator with
\* "rejected" on an existing evaluation that was not completed, has returned, the
\* evaluation is completed with final_result "failed"
C8_RejectedCompletesFailed ==
    \A p \in Procs :
        (/\ pc[p] = "done"
         /\ ret[p].op = "admin_finalize"
         /\ ret[p].user = ADMIN_USER_ID
         /\ ret[p].arg = "rejected"
         /\ ret[p].msg \notin {"not_found", "already_completed"})
           => /\ evaluations[ret[p].eid].status = "completed"
              /\ evaluations[ret[p].eid].final_result = "failed"

\* C27: when admin_finalize_evaluation with the decision "rejected" returns
\* success, the final_result of the evaluation is "failed", also when the deadline
\* timer's finalize_evaluation runs concurrently on the same evaluation
C27_RejectionReturnsFailed ==
    [][\A p \in Procs :
          (/\ pc[p] # "done" /\ pc'[p] = "done"
           /\ ret'[p].op = "admin_finalize"
           /\ ret'[p].arg = "rejected"
           /\ ret'[p].success)
             => evaluations'[ret'[p].eid].final_result = "failed"]_vars

\* C14: admin_finalize_evaluation that finds the evaluation in status
\* "completed" is rejected and leaves the evaluations (admin_approval and
\* final_result included) and the hub unchanged
C14_CompletedRejectsAdminFinalize ==
    [][\A p \in Procs :
          (/\ pc[p] = "af_get"
           /\ evaluations[loc[p].eid].status = "completed"
           /\ pc'[p] # pc[p])
             => /\ pc'[p] = "done"
                /\ ret'[p].success = FALSE
                /\ UNCHANGED <<evaluations, hubs, finalWrites, resultPosts, archives>>]_vars

\* the timer completed the evaluation as a success; the administrator's later
\* rejection was turned away and stored nothing
C14_Witness ==
    /\ \E p \in Procs : pc[p] = "done" /\ ret[p].op = "admin_finalize" /\ ret[p].eid = 1
                        /\ ret[p].arg = "rejected" /\ ret[p].msg = "already_completed"
                        /\ ~ret[p].success
    /\ evaluations[1].status = "completed"
    /\ evaluations[1].final_result = "success"
    /\ evaluations[1].admin_approval = None
    /\ finalWrites[1] = 1

\* C29: every Evaluation record that is created reaches status "completed" through
\* the timer and the hourly check alone: once a finalize_evaluation run of the
\* scheduler on a created evaluation has returned, the evaluation is completed
C29_SchedulerCompletes ==
    \A p \in Procs :
        (/\ pc[p] = "done"
         /\ ret[p].op = "finalize"
         /\ Exists(ret[p].eid))
           => evaluations[ret[p].eid].status = "completed"

\* C30: in every state where no operation is in progress, an evaluation with
\* status "completed" has an owning hub with status "completed" and completed_at
\* set, whatever the result is, also when a store or gateway call fails partway
\* through finalize_evaluation or force_complete_evaluation
C30_CompletedTogether ==
    (\A p \in Procs : pc[p] \in {"idle", "done"})
       => \A e \in EvalIds :
             (Exists(e) /\ evaluations[e].status = "completed")
                => /\ hubs[evaluations[e].hub].status = "completed"
                   /\ hubs[evaluations[e].hub].completed_at # 0

\* C34: force_complete_evaluation by the administrator applies the record updates
\* and the archival of finalize_evaluation whatever the votes and the artifact
\* are: when the call returns success the evaluation is completed with exactly the
\* given result and a completion time, the owning hub is completed, and the
\* evaluation channel, if there is one, was archived by the call
C34_ForceCompletesLikeFinalize ==
    [][\A p \in Procs :
          (/\ pc[p] \in {"fc_hub", "fc_post", "fc_archive"}
           /\ pc'[p] = "done"
           /\ ret'[p].success)
             => LET e == ret'[p].eid
                IN  /\ evaluations'[e].status = "completed"
                    /\ evaluations'[e].final_result = ret'[p].arg
                    /\ evaluations'[e].completed_at # 0
                    /\ hubs'[evaluations'[e].hub].status = "completed"
                    /\ evaluations'[e].channel # 0
                          => pc[p] = "fc_archive" /\ archives'[e] = archives[e] + 1]_vars

\* C35: the final_result of an evaluation is permanent: once the evaluation is
\* completed no step changes its final_result or completed_at, and its channel is
\* archived at most once
C35_ResultPermanent ==
    [][\A e \in EvalIds :
          /\ evaluations[e].status = "completed"
                => /\ evaluations'[e].final_result = evaluations[e].final_result
                   /\ evaluations'[e].completed_at = evaluations[e].completed_at
          /\ archives'[e] <= 1]_vars

\* C36: a completed evaluation is frozen: no step of submit_vote, toggle_juror or
\* submit_github_link changes its Evaluator records, their votes, its tallies or
\* its repository URL and verified flag
C36_CompletedIsFrozen ==
    [][\A e \in EvalIds :
          evaluations[e].status = "completed"
             => /\ {r \in evaluators' : r.evaluation_id = e}
                      = {r \in evaluators : r.evaluation_id = e}
                /\ evaluations'[e].true_votes = evaluations[e].true_votes
                /\ evaluations'[e].false_votes = evaluations[e].false_votes
                /\ evaluations'[e].url = evaluations[e].url
                /\ evaluations'[e].public = evaluations[e].public]_vars

\* C37: the status of an evaluation only moves forward along pending,
\* evaluating, completed: no step moves an evaluation from evaluating back to
\* pending or out of completed
C37_StatusMovesForward ==
    [][\A e \in EvalIds :
          /\ evaluations[e].status = "evaluating"
                => evaluations'[e].status \in {"evaluating", "completed"}
          /\ evaluations[e].status = "completed"
                => evaluations'[e].status = "completed"]_vars

\* C38: submit_github_link writes the repository URL and its verified flag
\* together: in every state the flag says public only if a URL is stored and that
\* repository is public; a step that changes either field writes the URL of a
\* call and the outcome of its lookup; a malformed URL is rejected with nothing
\* stored, and a lookup that did not verify the repository is stored as not public
\* while the call returns success
C38_UrlAndFlagTogether ==
    [][/\ \A e \in EvalIds :
             /\ evaluations'[e].public = 1 => evaluations'[e].url = PubUrl
             /\ (evaluations'[e].url # evaluations[e].url
                   \/ evaluations'[e].public # evaluations[e].public)
                   => \E p \in Procs :
                         /\ pc[p] = "gl_update" /\ pc'[p] # pc[p] /\ loc[p].eid = e
                         /\ evaluations'[e].url = loc[p].arg
                         /\ evaluations'[e].public = loc[p].n
       /\ \A p \in Procs :
             /\ (StartsAs(p, "submit_github_link") /\ pc'[p] = "done")
                   => ~ret'[p].success /\ evaluations' = evaluations
             /\ (StartsAs(p, "submit_github_link") /\ pc'[p] # "done")
                   => loc'[p].arg \in {PubUrl, PrivUrl} /\ evaluations' = evaluations
             /\ (pc[p] = "gl_update" /\ pc'[p] # pc[p] /\ loc[p].n = 0)
                   => /\ pc'[p] = "done" /\ ret'[p].success
                      /\ evaluations'[loc[p].eid].public = 0]_vars

\* two links were submitted concurrently; the public repository was stored last
\* and both calls returned success
C38_Witness ==
    /\ \E p, q \in Procs :
          /\ pc[p] = "done" /\ ret[p].op = "submit_github_link" /\ ret[p].arg = PrivUrl
          /\ pc[q] = "done" /\ ret[q].op = "submit_github_link" /\ ret[q].arg = PubUrl
          /\ ret[p].success /\ ret[q].success
    /\ evaluations[1].url = PubUrl
    /\ evaluations[1].public = 1

C9_AtMostOneEvaluationPerHub ==
    \A h \in HubIds : Cardinality(GetByChallenge(h)) <= 1

\* C10: no Evaluation record is left in status "pending" once the start_evaluation
\* call that created it has returned (a failed channel creation leaves no record)
C10_NoPendingLeftBehind ==
    \A e \in EvalIds :
        evaluations[e].status = "pending"
            => \E p \in Procs : loc[p].op = "start_evaluation" /\ loc[p].eid = e

\* C31: a failure to post the welcome message or the jury announcement is not
\* fatal to start_evaluation: the call that reached the posting of the messages
\* returns success = true, with the evaluation in "evaluating" and its finalize
\* timer scheduled
C31_PostFailureNotFatal ==
    [][\A p \in Procs :
          (pc[p] = "se_post" /\ pc'[p] = "done")
             => /\ ret'[p].success
                /\ evaluations'[ret'[p].eid].status = "evaluating"
                /\ ret'[p].eid \in DOMAIN jobs']_vars


(***************************************************************************)
(* Properties of reset_user.                                               *)
(***************************************************************************)
\* C23: after reset_user(u), u is a participant of no hub that was recruiting or
\* active and every such hub created by u is cancelled; hubs in evaluating or in
\* a terminal status, their participants, and the participant records of other
\* users are unchanged
C23_ResetFrame ==
    [][\A p \in Procs :
          StartsAs(p, "reset_user") =>
             LET u == ret'[p].user
             IN  /\ \A h \in DOMAIN hubs :
                       IF hubs[h].status \in {"recruiting", "active"}
                          THEN /\ [hub |-> h, user |-> u] \notin participants'
                               /\ hubs[h].creator = u => hubs'[h].status = "cancelled"
                          ELSE /\ hubs'[h] = hubs[h]
                               /\ {r \in participants' : r.hub = h}
                                     = {r \in participants : r.hub = h}
                 /\ DOMAIN hubs' = DOMAIN hubs
                 /\ {r \in participants' : r.user # u} = {r \in participants : r.user # u}
                 /\ participants' \subseteq participants]_vars

\* the creator was reset: the recruiting hub they created is cancelled and they
\* left it, while they are still a participant of the evaluating hub, and the
\* other member's rows are kept
C23_Witness ==
    /\ \E p \in Procs : pc[p] = "done" /\ ret[p].op = "reset_user" /\ ret[p].user = "creator"
    /\ \A p \in Procs : pc[p] = "done" => ret[p].user = "creator"
    /\ hubs["h1"].creator = "creator" /\ hubs["h1"].status = "cancelled"
    /\ hubs["h2"].status = "evaluating"
    /\ participants = {[hub |-> "h1", user |-> "member"],
                       [hub |-> "h2", user |-> "creator"],
                       [hub |-> "h2", user |-> "member"]}

(***************************************************************************)
(* Properties of handle_start_challenge.                                   *)
(***************************************************************************)
\* the team size, theme, deadline and difficulty a command names are all allowed
\* (a part left out takes its default)
NamesAllowedValues(r) ==
    /\ r.team_size \in {"2", "3", "4", "5", "6"}
    /\ r.theme \in {"AI Chatbot", "Web App", "Data Analysis", "Mobile App", "Automation"}
    /\ r.deadline_hours \in {None, "12", "168"}
    /\ r.difficulty \in {None, "beginner", "intermediate", "advanced"}

\* C24: a challenge start request is accepted only when its team size is within
\* 2..6, its theme is one of the five themes, its deadline is within 12..168 hours
\* and its difficulty is beginner, intermediate or advanced; every other request is
\* rejected before start_challenge is invoked, and no hub is created
C24_OnlyValidRequestsAccepted ==
    [][\A p \in Procs :
          StartsAs(p, "start_challenge") =>
             /\ hubs' = hubs
             /\ IF pc'[p] = "done"
                   THEN ~ret'[p].success
                   ELSE NamesAllowedValues(loc'[p].arg)]_vars
====
